---- MODULE Spec2Model ----
(***************************************************************************)
(* Model of the Wordle solver service (src/app.py): the annotated-guess    *)
(* parser, the candidate filter, the frequency scorer, the starter         *)
(* selector and the message handler with its per-user sessions.            *)
(*                                                                         *)
(* Strings are sequences of one-character strings.  Python's 0-based       *)
(* positions are kept in the green/yellow maps; At(w, p) reads w[p].       *)
(***************************************************************************)
EXTENDS Integers, Sequences, FiniteSets, TLC

VARIABLES
    wordlist,        \* _wordlist_cache["words"]: the corpus
    past,            \* the archive set get_past_answers() returns
    recent,          \* the local database's answers sorted by date, newest first
    user_sessions,   \* _user_sessions: phone -> session
    reply,           \* the reply sms_reply produced for the last message
    delivered,       \* per phone: the suggestions sent since its list was stored
    convention,      \* harness input: how the feedback is given ("A", "B", "free", "image")
    guess,           \* harness input: the guessed word
    colors,          \* harness input: the feedback, one colour per position
    raw_input,       \* harness input: the annotated text given to parse_input
    parsed,          \* harness: the constraint built from the input
    candidates,      \* harness: filter_candidates' result
    scored,          \* harness: the (word, score) list find_best_suggestions builds
    ranked,          \* harness: find_best_suggestions' result
    pc,              \* harness: position in the pipeline, or in the grid search
    pixel,           \* harness input: the rgb triple given to classify_color
    color_type,      \* classify_color's result
    image,           \* the screenshot given to process_wordle_screenshot
    scan_y,          \* find_wordle_grid: y
    scan_x,          \* find_row_at_y: x
    right,           \* find_cell_bounds: right
    cells,           \* find_row_at_y: cells
    rows_found,      \* find_wordle_grid: rows_found
    past_answers_cache,  \* _past_answers_cache: words and last_fetched
    clock,           \* time.time(), in seconds
    now,             \* get_past_answers: now
    remote,          \* the answers the archive service holds, page by page
    page,            \* get_past_answers: page
    all_words        \* get_past_answers: all_words

coreVars == <<convention, guess, colors, raw_input, parsed, candidates, scored,
              ranked, pc>>
dataVars == <<wordlist, past, recent>>
smsVars  == <<user_sessions, reply, delivered>>
imgVars  == <<pixel, color_type, image, scan_y, scan_x, right, cells, rows_found>>
gridVars == <<image, scan_y, scan_x, right, cells, rows_found>>
archVars == <<past_answers_cache, clock, now, remote, page, all_words>>
vars     == <<wordlist, past, recent, user_sessions, reply, delivered,
              convention, guess, colors, raw_input, parsed, candidates, scored,
              ranked, pc, pixel, color_type, image, scan_y, scan_x, right, cells,
              rows_found, past_answers_cache, clock, now, remote, page, all_words>>

\* Python's None where a dict is expected, and where a list is expected
None     == [none |-> TRUE]
NoColors == <<>>

----------------------------------------------------------------------------
(* Characters *)

UpperSeq == <<"A","B","C","D","E","F","G","H","I","J","K","L","M",
              "N","O","P","Q","R","S","T","U","V","W","X","Y","Z">>
LowerSeq == <<"a","b","c","d","e","f","g","h","i","j","k","l","m",
              "n","o","p","q","r","s","t","u","v","w","x","y","z">>

Range(s) == {s[i] : i \in DOMAIN s}

UpperLetters == Range(UpperSeq)
LowerLetters == Range(LowerSeq)

\* a slip: everything but brackets and '+' counts as a letter
IsAlpha_SpaceIsLetter(ch) == ch \in UpperLetters \cup LowerLetters \cup {" "}

\* str.isalpha / str.isupper on one ASCII character
IsAlpha(ch) == ch \in UpperLetters \cup LowerLetters
IsUpper(ch) == ch \in UpperLetters

\* index of a letter in the alphabet (its code point order)
OrdOf == [ch \in UpperLetters \cup LowerLetters |->
            CHOOSE i \in 1..26 : UpperSeq[i] = ch \/ LowerSeq[i] = ch]
Ord(ch) == OrdOf[ch]

\* str.upper / str.lower on one character: non-letters are unchanged
Upper(ch) == IF ch \in LowerLetters THEN UpperSeq[Ord(ch)] ELSE ch
Lower(ch) == IF ch \in UpperLetters THEN LowerSeq[Ord(ch)] ELSE ch

UpperStr(s) == [i \in DOMAIN s |-> Upper(s[i])]
LowerStr(s) == [i \in DOMAIN s |-> Lower(s[i])]

\* w[p] for a 0-based position p
At(w, p) == w[p + 1]

\* ch in w
InWord(ch, w) == \E i \in DOMAIN w : w[i] = ch

\* a dict or Counter as a table: the function f with its values computed once
Table(f) == f @@ <<>>

\* values of a position -> letter map
Values(m) == {m[p] : p \in DOMAIN m}

WordLen == 5

\* seq[a:b] for 0 <= a, 0 <= b
PySlice(seq, a, b) ==
    LET hi == IF b < Len(seq) THEN b ELSE Len(seq)
    IN  IF a >= hi THEN <<>> ELSE SubSeq(seq, a + 1, hi)

----------------------------------------------------------------------------
(* parse_input *)

\* raw_input.rstrip('+'): the length left once the trailing '+' are removed
RECURSIVE RStripPlusLen(_)
RStripPlusLen(s) ==
    IF Len(s) > 0 /\ s[Len(s)] = "+"
    THEN RStripPlusLen(SubSeq(s, 1, Len(s) - 1))
    ELSE Len(s)

\* a slip in the look-ahead: ')' expected right after '('
ParenYellowAt_OffByOne(s, i) == s[i] = "(" /\ i + 1 <= Len(s) /\ s[i + 1] = ")"

\* the yellow branch of the scan: '(' now and ')' two characters on
ParenYellowAt(s, i) == s[i] = "(" /\ i + 2 <= Len(s) /\ s[i + 2] = ")"

\* the while loop of parse_input: i is the 1-based scan index, st the
\* accumulated word_chars, green, yellow, grey and pos
RECURSIVE ParseLoop(_, _, _)
ParseLoop(s, i, st) ==
    IF i > Len(s) THEN st
    ELSE IF ParenYellowAt(s, i)
    THEN ParseLoop(s, i + 3,
            [st EXCEPT !.word = Append(@, Upper(s[i + 1])),
                       !.yellow = (st.pos :> Upper(s[i + 1])) @@ @,
                       !.pos = @ + 1])
    ELSE IF IsAlpha(s[i])
    THEN ParseLoop(s, i + 1,
            IF IsUpper(s[i])
            THEN [st EXCEPT !.word = Append(@, Upper(s[i])),
                            !.green = (st.pos :> Upper(s[i])) @@ @,
                            !.pos = @ + 1]
            ELSE [st EXCEPT !.word = Append(@, Upper(s[i])),
                            !.grey = @ \cup {Upper(s[i])},
                            !.pos = @ + 1])
    ELSE ParseLoop(s, i + 1, st)

ExtraPerPlus == 3

\* a slip: only the yellow letters are taken out of grey
parse_input_GreenKeptInGrey(raw) ==
    LET n     == RStripPlusLen(raw)
        clean == SubSeq(raw, 1, n)
        st    == ParseLoop(clean, 1,
                    [word |-> <<>>, green |-> <<>>, yellow |-> <<>>,
                     grey |-> {}, pos |-> 0])
    IN  [word        |-> st.word,
         green       |-> st.green,
         yellow      |-> st.yellow,
         grey        |-> st.grey \ Values(st.yellow),
         extra_count |-> (Len(raw) - n) * ExtraPerPlus]

parse_input(raw) ==
    LET n     == RStripPlusLen(raw)
        clean == SubSeq(raw, 1, n)
        st    == ParseLoop(clean, 1,
                    [word |-> <<>>, green |-> <<>>, yellow |-> <<>>,
                     grey |-> {}, pos |-> 0])
    IN  [word        |-> st.word,
         green       |-> st.green,
         yellow      |-> st.yellow,
         grey        |-> (st.grey \ Values(st.yellow)) \ Values(st.green),
         extra_count |-> (Len(raw) - n) * ExtraPerPlus]

----------------------------------------------------------------------------
(* process_wordle_screenshot: the constraint built from word and colours *)

Colors == {"green", "yellow", "grey"}

\* a slip: grey is cleaned of the green letters only
ScreenshotConstraint_YellowKeptInGrey(word, cols) ==
    LET w     == UpperStr(word)
        green == [p \in {q \in 0..(Len(w) - 1) : cols[q + 1] = "green"}
                    |-> At(w, p)]
        yellow == [p \in {q \in 0..(Len(w) - 1) : cols[q + 1] = "yellow"}
                    |-> At(w, p)]
        grey  == {At(w, p) : p \in {q \in 0..(Len(w) - 1) :
                                        cols[q + 1] \notin {"green", "yellow"}}}
    IN  [word        |-> w,
         green       |-> green,
         yellow      |-> yellow,
         grey        |-> grey \ Values(green),
         extra_count |-> 0]

\* lines 321-343: zip(word, colors) into green / yellow / grey
ScreenshotConstraint(word, cols) ==
    LET w     == UpperStr(word)
        green == [p \in {q \in 0..(Len(w) - 1) : cols[q + 1] = "green"}
                    |-> At(w, p)]
        yellow == [p \in {q \in 0..(Len(w) - 1) : cols[q + 1] = "yellow"}
                    |-> At(w, p)]
        grey  == {At(w, p) : p \in {q \in 0..(Len(w) - 1) :
                                        cols[q + 1] \notin {"green", "yellow"}}}
    IN  [word        |-> w,
         green       |-> green,
         yellow      |-> yellow,
         grey        |-> (grey \ Values(yellow)) \ Values(green),
         extra_count |-> 0]

\* process_wordle_screenshot once the recognizer has answered: cols is the
\* colour list it found, NoColors when it found none (None or an empty list:
\* "not colors")
process_wordle_screenshot(cols, word) ==
    IF Len(word) # WordLen THEN None
    ELSE IF cols = NoColors \/ Len(cols) # 5 THEN None
    ELSE ScreenshotConstraint(word, cols)

----------------------------------------------------------------------------
(* Word order and sorting *)

\* a < b for Python strings of uppercase letters (code point order)
RECURSIVE LexLess(_, _)
LexLess(a, b) ==
    IF Len(a) = 0 THEN Len(b) > 0
    ELSE IF Len(b) = 0 THEN FALSE
    ELSE IF a[1] # b[1] THEN Ord(a[1]) < Ord(b[1])
    ELSE LexLess(Tail(a), Tail(b))

\* x put at its place in an ascending list
RECURSIVE InsertWord(_, _)
InsertWord(sorted, x) ==
    IF sorted = <<>> THEN <<x>>
    ELSE IF LexLess(x, sorted[1]) THEN <<x>> \o sorted
    ELSE <<sorted[1]>> \o InsertWord(Tail(sorted), x)

\* sorted(S) for a set of words
RECURSIVE SortedWords(_)
SortedWords(S) ==
    IF S = {} THEN <<>>
    ELSE LET x == CHOOSE y \in S : TRUE
         IN  InsertWord(SortedWords(S \ {x}), x)

----------------------------------------------------------------------------
(* filter_candidates *)

\* lines 493-502: the pattern with the green letter or '.' at each position
GreenPattern(green) ==
    [i \in 1..WordLen |-> IF (i - 1) \in DOMAIN green THEN green[i - 1] ELSE "."]

\* re.match of ^pattern$ against a word: five characters, '.' matches any
PatternMatches(pattern, word) ==
    /\ Len(word) = Len(pattern)
    /\ \A i \in 1..Len(pattern) : pattern[i] = "." \/ word[i] = pattern[i]

\* lines 513-514: the word holds a grey letter
HasGreyLetter(grey, word) == \E letter \in grey : InWord(letter, word)

\* lines 517-518: the word holds every yellow letter
HasAllYellowLetters(yellow, word) ==
    \A letter \in Values(yellow) : InWord(letter, word)

\* a slip: the yellow position is read one place to the right
YellowElsewhere_Shifted(yellow, word) ==
    ~ \E pos \in DOMAIN yellow : pos + 1 < Len(word) /\ At(word, pos + 1) = yellow[pos]

\* lines 521-525: no yellow letter stands at its own position
YellowElsewhere(yellow, word) ==
    ~ \E pos \in DOMAIN yellow : pos < Len(word) /\ At(word, pos) = yellow[pos]

\* the body of the loop over available: does the word pass every test
PassesFilter(p, word) ==
    /\ PatternMatches(GreenPattern(p.green), word)
    /\ ~ HasGreyLetter(p.grey, word)
    /\ HasAllYellowLetters(p.yellow, word)
    /\ YellowElsewhere(p.yellow, word)

filter_candidates(p, wl, pst) ==
    LET available == wl \ pst
    IN  SortedWords({w \in available : PassesFilter(p, w)})

----------------------------------------------------------------------------
(* Scores: Python floats are modelled as exact fractions <<num, den>>,     *)
(* den > 0                                                                 *)

RatAdd(a, b) ==
    IF a[2] = b[2] THEN <<a[1] + b[1], a[2]>>
    ELSE <<a[1] * b[2] + b[1] * a[2], a[2] * b[2]>>

RatLess(a, b) == a[1] * b[2] < b[1] * a[2]
RatEq(a, b)   == a[1] * b[2] = b[1] * a[2]

RepeatPenalty == 5
FreqScale     == 10

\* a slip: a letter is counted once per candidate holding it anywhere
analyze_position_frequencies_Anywhere(cands, locked) ==
    Table([pos \in (0..(WordLen - 1)) \ DOMAIN locked |->
        Table([ch \in {At(cands[k], pos) : k \in DOMAIN cands} |->
            Cardinality({k \in DOMAIN cands : InWord(ch, cands[k])})])])

\* analyze_position_frequencies: for each position not locked, the Counter
\* of the letters the candidates have there
analyze_position_frequencies(cands, locked) ==
    Table([pos \in (0..(WordLen - 1)) \ DOMAIN locked |->
        Table([ch \in {At(cands[k], pos) : k \in DOMAIN cands} |->
            Cardinality({k \in DOMAIN cands : At(cands[k], pos) = ch})])])

\* sum(counter.values())
RECURSIVE SumValues(_, _)
SumValues(f, D) ==
    IF D = {} THEN 0
    ELSE LET x == CHOOSE y \in D : TRUE
         IN  f[x] + SumValues(f, D \ {x})

\* the loop of score_suggestion from 0-based position i on; acc holds the
\* running score and the seen set
RECURSIVE ScoreLoop(_, _, _, _, _, _)
ScoreLoop(word, i, position_freq, tested, locked, acc) ==
    IF i >= Len(word) THEN acc.score
    ELSE IF i \in DOMAIN locked
    THEN ScoreLoop(word, i + 1, position_freq, tested, locked, acc)
    ELSE
      LET ch      == At(word, i)
          s1      == IF ch \in acc.seen
                     THEN RatAdd(acc.score, <<-RepeatPenalty, 1>>)
                     ELSE acc.score
          seen1   == acc.seen \cup {ch}
          total   == SumValues(position_freq[i], DOMAIN position_freq[i])
          s2      == IF /\ ch \notin tested
                        /\ i \in DOMAIN position_freq
                        /\ ch \in DOMAIN position_freq[i]
                        /\ total > 0
                     THEN RatAdd(s1, <<FreqScale * position_freq[i][ch], total>>)
                     ELSE s1
      IN  ScoreLoop(word, i + 1, position_freq, tested, locked,
                    [score |-> s2, seen |-> seen1])

score_suggestion(word, position_freq, tested, locked) ==
    ScoreLoop(word, 0, position_freq, tested, locked,
              [score |-> <<0, 1>>, seen |-> {}])

\* a slip: an unstable sort that puts x before the elements of equal score
RECURSIVE InsertByScore_BeforeEqual(_, _)
InsertByScore_BeforeEqual(sorted, x) ==
    IF sorted = <<>> THEN <<x>>
    ELSE IF ~ RatLess(x.s, sorted[1].s) THEN <<x>> \o sorted
    ELSE <<sorted[1]>> \o InsertByScore_BeforeEqual(Tail(sorted), x)

\* list.sort(key=lambda x: -x[1]): a stable sort, higher score first.
\* InsertByScore puts x after every element whose score is not lower.
RECURSIVE InsertByScore(_, _)
InsertByScore(sorted, x) ==
    IF sorted = <<>> THEN <<x>>
    ELSE IF RatLess(sorted[1].s, x.s) THEN <<x>> \o sorted
    ELSE <<sorted[1]>> \o InsertByScore(Tail(sorted), x)

RECURSIVE SortByScoreDesc(_, _)
SortByScoreDesc(lst, k) ==
    IF k = 0 THEN <<>>
    ELSE InsertByScore(SortByScoreDesc(lst, k - 1), lst[k])

\* lines 581-587: every candidate with its score, in candidate order
ScoredCandidates(cands, p) ==
    LET position_freq == analyze_position_frequencies(cands, p.green)
        tested        == (p.grey \cup Values(p.yellow)) \cup Values(p.green)
    IN  [k \in DOMAIN cands |->
            [w |-> cands[k],
             s |-> score_suggestion(cands[k], position_freq, tested, p.green)]]

\* find_best_suggestions on the candidates filter_candidates returned
RankCandidates(cands, p) ==
    IF cands = <<>> THEN <<>>
    ELSE LET lst    == ScoredCandidates(cands, p)
             sorted == SortByScoreDesc(lst, Len(lst))
         IN  [k \in DOMAIN sorted |-> sorted[k].w]

find_best_suggestions(p, wl, pst) ==
    RankCandidates(filter_candidates(p, wl, pst), p)

----------------------------------------------------------------------------
(* Words used as inputs *)

CRANE == <<"C","R","A","N","E">>
CRATE == <<"C","R","A","T","E">>
GRAPE == <<"G","R","A","P","E">>
TRACE == <<"T","R","A","C","E">>
SNARE == <<"S","N","A","R","E">>
SHARE == <<"S","H","A","R","E">>
SCARE == <<"S","C","A","R","E">>
STARE == <<"S","T","A","R","E">>
SHUSH == <<"S","H","U","S","H">>
ERASE == <<"E","R","A","S","E">>
EERIE == <<"E","E","R","I","E">>
EAGER == <<"E","A","G","E","R">>

----------------------------------------------------------------------------
(* Inputs of the pure functions: guesses, feedback and annotated texts *)

MaxPlus    == 1     \* trailing '+' on an annotated text
MaxFreeLen == 4     \* length of the texts that follow no convention
MaxArchive == 1     \* size of the archive in the filter / scorer runs

GuessPool == {STARE, CRANE, EERIE}

ColorSeqs == [1..WordLen -> Colors]

\* one letter written in convention A (docstring of parse_input): uppercase
\* for green, parenthesised for yellow, lowercase for grey
LetterA(ch, col) ==
    IF col = "green" THEN <<Upper(ch)>>
    ELSE IF col = "yellow" THEN <<"(", Lower(ch), ")">>
    ELSE <<Lower(ch)>>

\* one letter written in convention B (spec 4.1): a yellow letter is a space
\* followed by the letter
LetterB(ch, col) ==
    IF col = "green" THEN <<Upper(ch)>>
    ELSE IF col = "yellow" THEN <<" ", Lower(ch)>>
    ELSE <<Lower(ch)>>

RECURSIVE Annotate(_, _, _)
Annotate(conv, word, cols) ==
    IF word = <<>> THEN <<>>
    ELSE (IF conv = "B" THEN LetterB(word[1], cols[1]) ELSE LetterA(word[1], cols[1]))
         \o Annotate(conv, Tail(word), Tail(cols))

Pluses(k) == [i \in 1..k |-> "+"]

FreeChars == {"a", "B", "(", ")", " ", "+"}
FreeTexts == UNION {[1..n -> FreeChars] : n \in 0..MaxFreeLen}

Corpora == {{CRANE, CRATE, GRAPE, TRACE},
            {SNARE, SHARE, SCARE, STARE, SHUSH, ERASE, EAGER},
            {CRANE, CRATE, GRAPE, TRACE, SNARE, SHARE, SCARE, STARE, SHUSH, ERASE,
             EAGER}}

ArchivePool == {STARE, SHARE, CRANE}
Archives == {S \in SUBSET ArchivePool : Cardinality(S) <= MaxArchive}

\* values of the variables a specification does not use
DataIdle == wordlist = {} /\ past = {} /\ recent = <<>>
SmsIdle  == user_sessions = <<>> /\ reply = None /\ delivered = <<>>
GridIdle ==
    /\ image = None /\ scan_y = 0 /\ scan_x = 0 /\ right = 0
    /\ cells = <<>> /\ rows_found = <<>>
ImgIdle  == pixel = <<>> /\ color_type = "" /\ GridIdle
ArchIdle ==
    /\ past_answers_cache = [words |-> {}, last_fetched |-> 0]
    /\ clock = 0 /\ now = 0 /\ remote = <<>> /\ page = 0 /\ all_words = {}

----------------------------------------------------------------------------
(* SpecParse: the two constraint builders, parse_input on annotated and     *)
(* free texts and process_wordle_screenshot on a word and its colours      *)

InitParse ==
    /\ DataIdle /\ SmsIdle /\ ImgIdle /\ ArchIdle
    /\ \/ \E g \in GuessPool, c \in ColorSeqs, conv \in {"A", "B"}, k \in 0..MaxPlus :
            /\ convention = conv /\ guess = g /\ colors = c
            /\ raw_input = Annotate(conv, g, c) \o Pluses(k)
       \/ \E g \in GuessPool, c \in ColorSeqs :
            /\ convention = "image" /\ guess = g /\ colors = c
            /\ raw_input = <<>>
       \/ \E t \in FreeTexts :
            /\ convention = "free" /\ guess = <<>> /\ colors = <<>>
            /\ raw_input = t
    /\ parsed = None /\ candidates = <<>> /\ scored = <<>> /\ ranked = <<>>
    /\ pc = "start"

\* the call parse_input(raw_input)
Parse ==
    /\ pc = "start"
    /\ convention \in {"A", "B", "free"}
    /\ parsed' = parse_input(raw_input)
    /\ pc' = "parsed"
    /\ UNCHANGED <<convention, guess, colors, raw_input, candidates, scored, ranked>>
    /\ UNCHANGED <<dataVars, smsVars, imgVars, archVars>>

\* the screenshot modality: process_wordle_screenshot with the colours the
\* recognizer read and the word the user sent
Screenshot ==
    /\ pc = "start"
    /\ convention = "image"
    /\ parsed' = process_wordle_screenshot(colors, guess)
    /\ pc' = "parsed"
    /\ UNCHANGED <<convention, guess, colors, raw_input, candidates, scored, ranked>>
    /\ UNCHANGED <<dataVars, smsVars, imgVars, archVars>>

NextParse == Parse \/ Screenshot

SpecParse == InitParse /\ [][NextParse]_vars

----------------------------------------------------------------------------
(* SpecCore: text or screenshot -> constraint -> filter -> ranking *)

InitCore ==
    /\ SmsIdle /\ ImgIdle /\ ArchIdle
    /\ wordlist \in Corpora
    /\ past \in Archives
    /\ recent = <<>>
    /\ \E g \in GuessPool, c \in ColorSeqs, conv \in {"A", "image"} :
            /\ convention = conv /\ guess = g /\ colors = c
            /\ raw_input = IF conv = "A" THEN Annotate("A", g, c) ELSE <<>>
    /\ parsed = None /\ candidates = <<>> /\ scored = <<>> /\ ranked = <<>>
    /\ pc = "start"

\* the text modality: parse_input on the convention-A text
ParseText ==
    /\ pc = "start"
    /\ convention = "A"
    /\ parsed' = parse_input(raw_input)
    /\ pc' = "parsed"
    /\ UNCHANGED <<convention, guess, colors, raw_input, candidates, scored, ranked>>
    /\ UNCHANGED <<dataVars, smsVars, imgVars, archVars>>

\* the call filter_candidates(parsed)
Filter ==
    /\ pc = "parsed"
    /\ parsed # None
    /\ candidates' = filter_candidates(parsed, wordlist, past)
    /\ pc' = "filtered"
    /\ UNCHANGED <<convention, guess, colors, raw_input, parsed, scored, ranked>>
    /\ UNCHANGED <<dataVars, smsVars, imgVars, archVars>>

\* the call find_best_suggestions(parsed)
Rank ==
    /\ pc = "filtered"
    /\ scored' = ScoredCandidates(filter_candidates(parsed, wordlist, past), parsed)
    /\ ranked' = find_best_suggestions(parsed, wordlist, past)
    /\ pc' = "ranked"
    /\ UNCHANGED <<convention, guess, colors, raw_input, parsed, candidates>>
    /\ UNCHANGED <<dataVars, smsVars, imgVars, archVars>>

NextCore == ParseText \/ Screenshot \/ Filter \/ Rank

SpecCore == InitCore /\ [][NextCore]_vars

----------------------------------------------------------------------------
(* get_best_starter *)

DefaultStarter == <<"S","L","A","T","E">>
RecentCount    == 20

\* a slip: the recent answers are not cut to the n newest
get_recent_answers_All(db_by_date, n) == db_by_date

\* get_recent_answers(n): the first n words of the local database sorted by
\* date, newest first
get_recent_answers(db_by_date, n) == PySlice(db_by_date, 0, n)

\* recent_letters[ch]: occurrences of ch in the recent answers
RecentLetters(rec, ch) ==
    SumValues([k \in DOMAIN rec |->
                  Cardinality({i \in DOMAIN rec[k] : rec[k][i] = ch})], DOMAIN rec)

\* letter_freq[ch]: the available words holding ch (once per word)
LetterFreq(available, ch) == Cardinality({w \in available : InWord(ch, w)})

\* lines 651-654: the score of one starter word
StarterScore(word, available, rec) ==
    SumValues([i \in DOMAIN word |->
                  LetterFreq(available, word[i]) - RecentLetters(rec, word[i]) * 2],
              DOMAIN word)

\* lines 646-659: the available words with 5 distinct letters are scored in
\* the iteration order of the set `available`, which Python leaves open, and
\* sorted stably by score descending: every ordering of the (word, score)
\* pairs by non-increasing score is a possible result of the sort
RECURSIVE OrdersByScore(_)
OrdersByScore(pairs) ==
    IF pairs = {} THEN {<<>>}
    ELSE LET top == {x \in pairs : \A y \in pairs : y.s <= x.s}
         IN  UNION {{<<x.w>> \o t : t \in OrdersByScore(pairs \ {x})} : x \in top}

\* get_best_starter: the set of results it can return, each the list "all"
\* (its first element is "word")
get_best_starter(wl, pst, rec) ==
    LET available == wl \ pst
        unique    == {w \in available : Cardinality(Range(w)) = 5}
        last      == get_recent_answers(rec, RecentCount)
    IN  IF available = {} THEN {<<DefaultStarter>>}
        ELSE IF unique = {} THEN {<<DefaultStarter>>}
        ELSE OrdersByScore({[w |-> w, s |-> StarterScore(w, available, last)] :
                                w \in unique})

----------------------------------------------------------------------------
(* sms_reply: the message handler and the sessions *)

\* str.strip(): leading and trailing spaces removed
RECURSIVE Strip(_)
Strip(s) ==
    IF s = <<>> THEN s
    ELSE IF s[1] = " " THEN Strip(Tail(s))
    ELSE IF s[Len(s)] = " " THEN Strip(SubSeq(s, 1, Len(s) - 1))
    ELSE s

\* str.strip('+')
RECURSIVE StripPlus(_)
StripPlus(s) ==
    IF s = <<>> THEN s
    ELSE IF s[1] = "+" THEN StripPlus(Tail(s))
    ELSE IF s[Len(s)] = "+" THEN StripPlus(SubSeq(s, 1, Len(s) - 1))
    ELSE s

\* text.replace(' ', '')
RECURSIVE RemoveSpaces(_)
RemoveSpaces(s) ==
    IF s = <<>> THEN s
    ELSE IF s[1] = " " THEN RemoveSpaces(Tail(s))
    ELSE <<s[1]>> \o RemoveSpaces(Tail(s))

\* word.isalpha()
IsAlphaStr(s) == s # <<>> /\ \A i \in DOMAIN s : IsAlpha(s[i])

\* five letters [A-Z] from index i on
FiveLettersAt(t, i) == i + 4 <= Len(t) /\ \A k \in i..(i + 4) : IsUpper(t[k])

\* \b([A-Z]{5})\b matches at i: five letters with no letter next to them
\* (the texts hold no digit and no underscore)
StandaloneAt(t, i) ==
    /\ FiveLettersAt(t, i)
    /\ i = 1 \/ ~ IsAlpha(t[i - 1])
    /\ i + 5 > Len(t) \/ ~ IsAlpha(t[i + 5])

\* extract_word_from_message; <<>> stands for None
extract_word_from_message(text) ==
    LET t  == UpperStr(Strip(text))
        t2 == RemoveSpaces(t)
    IN  IF \E i \in DOMAIN t : StandaloneAt(t, i)
        THEN LET i == CHOOSE k \in DOMAIN t :
                        StandaloneAt(t, k) /\ \A j \in 1..(k - 1) : ~ StandaloneAt(t, j)
             IN  SubSeq(t, i, i + 4)
        ELSE IF \E i \in DOMAIN t2 : FiveLettersAt(t2, i)
        THEN LET i == CHOOSE k \in DOMAIN t2 :
                        FiveLettersAt(t2, k) /\ \A j \in 1..(k - 1) : ~ FiveLettersAt(t2, j)
             IN  SubSeq(t2, i, i + 4)
        ELSE <<>>

HelpWords == {<<"h","e","l","p">>, <<"h","i">>, <<"h","e","l","l","o">>,
              <<"h","e","y">>, <<"s","t","a","r","t">>, <<"m","e","n","u">>}

\* PIL_AVAILABLE: Pillow is installed
PIL_AVAILABLE == TRUE

DefaultShow  == 3     \* show_count of a query
StarterIndex == 1     \* index stored with the starters
PerPlus      == 3     \* count = plus_count * 3

\* what fetch_image_from_url and the grid recognizer give for an image: no
\* image at all, an image with no readable row, an image with a read row
NoImage    == [image |-> FALSE, colors |-> NoColors]
BlankImage == [image |-> TRUE, colors |-> NoColors]
BoardImage == [image |-> TRUE,
               colors |-> <<"grey", "grey", "grey", "grey", "green">>]
FetchResults == {NoImage, BlankImage, BoardImage}

\* the sessions sms_reply stores
AwaitingSession(url) == [awaiting_word |-> TRUE, image_url |-> url]
QuerySession(all, show_count, p) ==
    [suggestions |-> all, index |-> show_count, parsed |-> p]
StarterSession(all) ==
    [suggestions |-> all, index |-> StarterIndex, mode |-> "starter"]

\* session.get("awaiting_word") and session.get("image_url")
IsAwaiting(S, from) ==
    /\ from \in DOMAIN S
    /\ "awaiting_word" \in DOMAIN S[from] /\ S[from].awaiting_word
    /\ "image_url" \in DOMAIN S[from]

\* session and session.get("suggestions"): a stored, non-empty list
HasSuggestions(S, from) ==
    /\ from \in DOMAIN S
    /\ "suggestions" \in DOMAIN S[from]
    /\ S[from].suggestions # <<>>

\* _user_sessions[from] = session
Put(S, from, session) == [u \in DOMAIN S \cup {from} |-> IF u = from THEN session ELSE S[u]]

\* a slip: the reset clears every user's session
Del_Everyone(S, from) == <<>>

\* del _user_sessions[from]
Del(S, from) == [u \in DOMAIN S \ {from} |-> S[u]]

Reply(to, kind, items, count) == [to |-> to, kind |-> kind, items |-> items, count |-> count]

Out(S, r) == [sessions |-> S, reply |-> r]

\* lines 791-817, 830-856 and 931-971: a query that produced a constraint
\* stores the ranked list with the cursor show_count and shows the top
StoreQuery(S, from, kind, p, show_count, wl, pst) ==
    LET all_suggestions == find_best_suggestions(p, wl, pst)
    IN  Out(Put(S, from, QuerySession(all_suggestions, show_count, p)),
            Reply(from, kind, PySlice(all_suggestions, 0, show_count), show_count))

\* lines 763-817: a message with an image
ImageMessage(S, from, body, url, fetched, wl, pst) ==
    LET word == extract_word_from_message(body)
    IN  IF word = <<>>
        THEN Out(Put(S, from, AwaitingSession(url)), Reply(from, "ask_word", <<>>, 0))
        ELSE IF ~ fetched.image
        THEN Out(S, Reply(from, "image_load_failed", <<>>, 0))
        ELSE LET p == process_wordle_screenshot(fetched.colors, word)
             IN  IF p = None
                 THEN Out(S, Reply(from, "read_failed", <<>>, 0))
                 ELSE StoreQuery(S, from, "image_query", p, DefaultShow, wl, pst)

\* line 823: the word answered to "what word did you play?"
AwaitedWord(body) ==
    LET w == extract_word_from_message(body)
    IN  IF w # <<>> THEN w ELSE UpperStr(Strip(body))

\* lines 820-861 take the message: the user was asked for the word and
\* answers with five letters
AnswersAwaiting(S, from, body) ==
    /\ IsAwaiting(S, from)
    /\ Len(AwaitedWord(body)) = 5 /\ IsAlphaStr(AwaitedWord(body))

\* lines 826-861: the stored image is fetched and read; failure deletes the
\* session
AwaitedWordMessage(S, from, body, fetched, wl, pst) ==
    LET word == AwaitedWord(body)
        p    == process_wordle_screenshot(fetched.colors, word)
    IN  IF fetched.image /\ p # None
        THEN StoreQuery(S, from, "await_query", p, DefaultShow, wl, pst)
        ELSE Out(Del(S, from), Reply(from, "await_failed", <<>>, 0))

\* lines 863-868: '*'
ResetMessage(S, from) ==
    Out(IF from \in DOMAIN S THEN Del(S, from) ELSE S, Reply(from, "reset", <<>>, 0))

\* lines 870-887: '?', with the list get_best_starter returned
StarterMessage(S, from, all) ==
    Out(Put(S, from, StarterSession(all)), Reply(from, "starter", <<all[1]>>, 1))

\* a slip: the batch starts one past the cursor
NextBatch_SkipsOne(suggestions, current_index, count) ==
    PySlice(suggestions, current_index + 1, current_index + count)

\* line 902: the next batch
NextBatch(suggestions, current_index, count) ==
    PySlice(suggestions, current_index, current_index + count)

\* a slip: the cursor is not advanced
AdvanceIndex_Stuck(session, count) == session

\* line 909: the cursor moves on by the requested count
AdvanceIndex(session, count) == [session EXCEPT !.index = @ + count]

\* lines 889-919: '+', '++', ... (and the empty message)
MoreMessage(S, from, body) ==
    LET plus_count == Len(Strip(body))
        count      == plus_count * PerPlus
    IN  IF ~ HasSuggestions(S, from)
        THEN Out(S, Reply(from, "no_previous", <<>>, count))
        ELSE LET session    == S[from]
                 current    == IF "index" \in DOMAIN session THEN session.index
                               ELSE DefaultShow
                 next_batch == NextBatch(session.suggestions, current, count)
             IN  IF next_batch = <<>>
                 THEN Out(S, Reply(from, "no_more", <<>>, count))
                 ELSE Out(Put(S, from, AdvanceIndex(session, count)),
                          Reply(from, "more", next_batch, count))

\* a slip: a text of the wrong length clears the sender's session
TextQuery_ClearsOnError(S, from, body, wl, pst) ==
    LET p == parse_input(body)
    IN  IF Len(p.word) # 5
        THEN Out(IF from \in DOMAIN S THEN Del(S, from) ELSE S,
                 Reply(from, "bad_length", <<>>, 0))
        ELSE StoreQuery(S, from, "query", p, DefaultShow + p.extra_count, wl, pst)

\* lines 921-971: an annotated guess
TextQuery(S, from, body, wl, pst) ==
    LET p == parse_input(body)
    IN  IF Len(p.word) # 5
        THEN Out(S, Reply(from, "bad_length", <<>>, 0))
        ELSE StoreQuery(S, from, "query", p, DefaultShow + p.extra_count, wl, pst)

\* sms_reply: incoming is the Body, num_media the NumMedia, url the
\* MediaUrl0; fetched is what fetching and reading the image gives and
\* starters what get_best_starter returns, where the handler gets that far
sms_reply(S, from, incoming, num_media, url, fetched, starters, wl, pst) ==
    LET incoming_msg == Strip(incoming)
    IN  IF LowerStr(incoming_msg) \in HelpWords
        THEN Out(S, Reply(from, "help", <<>>, 0))
        ELSE IF num_media > 0 /\ PIL_AVAILABLE
        THEN ImageMessage(S, from, incoming_msg, url, fetched, wl, pst)
        ELSE IF AnswersAwaiting(S, from, incoming_msg)
        THEN AwaitedWordMessage(S, from, incoming_msg, fetched, wl, pst)
        ELSE IF Strip(incoming_msg) = <<"*">>
        THEN ResetMessage(S, from)
        ELSE IF Strip(incoming_msg) = <<"?">>
        THEN StarterMessage(S, from, starters)
        ELSE IF StripPlus(incoming_msg) = <<>>
        THEN MoreMessage(S, from, incoming_msg)
        ELSE TextQuery(S, from, incoming_msg, wl, pst)

----------------------------------------------------------------------------
(* Spec: the service handling messages of two users *)

GEESE == <<"G","E","E","S","E">>

Users == {"u1", "u2"}
Url   == "media0"

Bodies == {<<"h","e","l","p">>, <<"*">>, <<"?">>, <<"+">>, <<"+","+">>, <<>>,
           <<"f","i","l","m","y">>,
           <<"f","i","l","m","(","e",")">>,
           <<"f","i","l","m","e">>,
           <<"S","i","l","m","y","+">>,
           <<"s","t","(","a",")","R">>,
           <<"f","i","l","m","y","s">>}

\* the texts sent along with a screenshot: none, or the word played
ImageBodies == {<<>>, <<"f","i","l","m","e">>}

SmsWordlist == {CRANE, SNARE, SHARE, SCARE, STARE, SHUSH, ERASE, EAGER, GEESE}
SmsPast     == {SHARE, SHUSH}
SmsRecent   == <<SHUSH, SHARE>>

CoreIdle ==
    /\ convention = "none" /\ guess = <<>> /\ colors = <<>> /\ raw_input = <<>>
    /\ parsed = None /\ candidates = <<>> /\ scored = <<>> /\ ranked = <<>>
    /\ pc = "idle"

Init ==
    /\ CoreIdle /\ ImgIdle /\ ArchIdle
    /\ wordlist = SmsWordlist
    /\ past = SmsPast
    /\ recent = SmsRecent
    /\ user_sessions = <<>>
    /\ reply = None
    /\ delivered = [u \in Users |-> <<>>]

\* what the user has been sent of the stored list once r is sent
Delivered(d, r) ==
    IF r.kind \in {"query", "image_query", "await_query", "starter"}
    THEN [d EXCEPT ![r.to] = r.items]
    ELSE IF r.kind = "more" THEN [d EXCEPT ![r.to] = @ \o r.items]
    ELSE IF r.kind \in {"reset", "await_failed", "ask_word"} THEN [d EXCEPT ![r.to] = <<>>]
    ELSE d

\* the fetch is reached only with an image or while a word is awaited, the
\* starter selector only by '?'
FetchChoices(from, num_media) ==
    IF num_media > 0 \/ IsAwaiting(user_sessions, from) THEN FetchResults ELSE {NoImage}
StarterChoices(body) ==
    IF Strip(body) = <<"?">> THEN get_best_starter(wordlist, past, recent)
    ELSE {<<DefaultStarter>>}

\* one message handled by sms_reply
SmsReply(from, body, num_media) ==
    \E fetched \in FetchChoices(from, num_media), starters \in StarterChoices(body) :
        LET out == sms_reply(user_sessions, from, body, num_media, Url, fetched,
                             starters, wordlist, past)
        IN  /\ user_sessions' = out.sessions
            /\ reply' = out.reply
            /\ delivered' = Delivered(delivered, out.reply)
            /\ UNCHANGED <<dataVars, coreVars, imgVars, archVars>>

\* a text message, or a message with a screenshot
Next ==
    \/ \E from \in Users, body \in Bodies : SmsReply(from, body, 0)
    \/ \E from \in Users, body \in ImageBodies : SmsReply(from, body, 1)

Spec == Init /\ [][Next]_vars

----------------------------------------------------------------------------
(* classify_color: distances are compared squared.  color_distance is the  *)
(* square root of an integer below 2^18, so d1 < d2, d > 80 and d > 50     *)
(* hold for the roots exactly when they hold for the squares against 80^2  *)
(* and 50^2                                                                *)

\* WORDLE_COLORS in the order the dict is iterated: category by category
WORDLE_COLORS ==
    << [name |-> "green",  ref |-> <<83, 141, 78>>],
       [name |-> "green",  ref |-> <<106, 170, 100>>],
       [name |-> "green",  ref |-> <<97, 140, 85>>],
       [name |-> "green",  ref |-> <<83, 141, 78>>],
       [name |-> "yellow", ref |-> <<181, 159, 59>>],
       [name |-> "yellow", ref |-> <<201, 180, 88>>],
       [name |-> "yellow", ref |-> <<177, 160, 76>>],
       [name |-> "yellow", ref |-> <<196, 180, 84>>],
       [name |-> "grey",   ref |-> <<120, 124, 126>>],
       [name |-> "grey",   ref |-> <<121, 124, 126>>],
       [name |-> "grey",   ref |-> <<58, 58, 60>>],
       [name |-> "grey",   ref |-> <<134, 136, 138>>],
       [name |-> "grey",   ref |-> <<162, 162, 162>>] >>

\* color_distance squared
color_distance_sq(c1, c2) ==
    (c1[1] - c2[1]) * (c1[1] - c2[1]) + (c1[2] - c2[2]) * (c1[2] - c2[2])
        + (c1[3] - c2[3]) * (c1[3] - c2[3])

FarThreshold  == 80     \* min_dist > 80
HueGreenMin   == 100    \* g > 100
HueYellowMin  == 150    \* r > 150 and g > 150 and b < 150

\* float('inf'), as a squared distance
Inf == -1

\* a slip: a reference as near as the best so far replaces it
CloserThan_OrEqual(dist, min_dist) == min_dist = Inf \/ dist <= min_dist

\* dist < min_dist
CloserThan(dist, min_dist) == min_dist = Inf \/ dist < min_dist

\* the two nested loops of classify_color from the k-th reference on
RECURSIVE NearestLoop(_, _, _)
NearestLoop(rgb, k, best) ==
    IF k > Len(WORDLE_COLORS) THEN best
    ELSE LET dist == color_distance_sq(rgb, WORDLE_COLORS[k].ref)
         IN  IF CloserThan(dist, best.min_dist)
             THEN NearestLoop(rgb, k + 1,
                      [min_dist |-> dist, best_match |-> WORDLE_COLORS[k].name])
             ELSE NearestLoop(rgb, k + 1, best)

\* lines 161-166: the hue heuristic for a colour far from every reference
HueFallback(rgb) ==
    LET r == rgb[1]
        g == rgb[2]
        b == rgb[3]
    IN  IF g > r /\ g > b /\ g > HueGreenMin THEN "green"
        ELSE IF r > HueYellowMin /\ g > HueYellowMin /\ b < HueYellowMin THEN "yellow"
        ELSE "grey"

classify_color(rgb) ==
    LET best == NearestLoop(rgb, 1, [min_dist |-> Inf, best_match |-> "grey"])
    IN  IF best.min_dist > FarThreshold * FarThreshold THEN HueFallback(rgb)
        ELSE best.best_match

----------------------------------------------------------------------------
(* SpecColor: classify_color on sampled pixels *)

\* channel values: the ends of the range and the values around the
\* thresholds of the hue heuristic
Channels == {0, 60, 100, 101, 120, 149, 150, 151, 200, 255}

\* pixels equally near to references of two categories (green/grey,
\* green/yellow, yellow/grey), pixels at distance exactly 80 from the
\* nearest reference, and the references themselves
TiePixels  == {<<11, 112, 94>>, <<139, 227, 57>>, <<142, 139, 91>>,
               <<16, 117, 64>>, <<141, 225, 67>>, <<143, 143, 95>>}
EdgePixels == {<<3, 141, 78>>, <<10, 58, 124>>, <<19, 189, 78>>, <<3, 141, 79>>}
Pixels ==
    (Channels \X Channels \X Channels) \cup TiePixels \cup EdgePixels
        \cup {WORDLE_COLORS[k].ref : k \in DOMAIN WORDLE_COLORS}

InitColor ==
    /\ DataIdle /\ SmsIdle /\ CoreIdle /\ GridIdle /\ ArchIdle
    /\ pixel \in Pixels
    /\ color_type = ""

\* the call classify_color(pixel)
Classify ==
    /\ color_type = ""
    /\ pixel # <<>>
    /\ color_type' = classify_color(pixel)
    /\ UNCHANGED <<pixel, dataVars, smsVars, coreVars, gridVars, archVars>>

NextColor == Classify

SpecColor == InitColor /\ [][NextColor]_vars

----------------------------------------------------------------------------
(* The grid recognizer: find_wordle_grid, find_row_at_y, find_cell_bounds, *)
(* extract_row_colors and detect_colors_simple.  An image is a record of   *)
(* its size, its background colour and one row of five square tiles       *)
(* (side 0: no tile); pixels[px, py] is PixelAt                            *)

TileAt(img, px, py) ==
    {i \in 1..5 :
        /\ img.top <= py /\ py < img.top + img.side
        /\ img.left + (i - 1) * (img.side + img.gap) <= px
        /\ px < img.left + (i - 1) * (img.side + img.gap) + img.side}

\* pixels[px, py]
PixelAt(img, px, py) ==
    IF TileAt(img, px, py) = {} THEN img.bg
    ELSE img.tiles[CHOOSE i \in TileAt(img, px, py) : TRUE]

Min(a, b) == IF a <= b THEN a ELSE b
Max(a, b) == IF a >= b THEN a ELSE b

CellDivisor  == 8     \* cell_size_estimate = width // 8
SweepStart   == 6     \* y = height // 6
SweepStep    == 10    \* y += 10
RowSkip      == 5     \* y += row[0][3] + 5
ScanStep     == 5     \* x += 5
CellSkip     == 2     \* x = cell[0] + cell[2] + 2
EdgeDistance == 50    \* color_distance(...) > 50
PatchRadius  == 2     \* range(-2, 3)

\* lines 192-194 of find_wordle_grid
MinCell(img) == (img.width \div CellDivisor) \div 2
MaxCell(img) == (img.width \div CellDivisor) * 2

\* y < height * 0.7 (exact in integers for the heights used: the float
\* product is below, at or above y exactly as 7 * height / 10 is)
SweepContinues(img, y0) == 10 * y0 < 7 * img.height

\* line 254: the bound of the right edge
EdgeLimit(img, start_x) == Min(start_x + MaxCell(img), img.width - 1)

\* line 255: the pixel at the right edge is within 50 of the start colour
SameCell(img, start_x, start_y, r) ==
    LET sy == Min(start_y, img.height - 1)
        sx == Min(start_x, img.width - 1)
    IN  color_distance_sq(PixelAt(img, r, sy), PixelAt(img, sx, sy))
            <= EdgeDistance * EdgeDistance

\* lines 259-261: the width test of find_cell_bounds
CellAccepted(img, cell_width) ==
    ~ (cell_width < MinCell(img) \/ cell_width > MaxCell(img))

\* line 263: the cell returned, (x, y, width, height)
Cell(start_x, start_y, cell_width) == <<start_x, start_y, cell_width, cell_width>>

\* a slip: x moves to the cell's right edge only
PastCell_NoSkip(c) == c[1] + c[3]

\* line 234: x = cell[0] + cell[2] + 2
PastCell(c) == c[1] + c[3] + CellSkip

\* lines 277-281: the k-th sample of the 5 x 5 patch around (cx, cy), dx
\* the outer and dy the inner loop, clamped to the image
PatchSample(img, cx, cy, k) ==
    LET n  == 2 * PatchRadius + 1
        dx == ((k - 1) \div n) - PatchRadius
        dy == ((k - 1) % n) - PatchRadius
    IN  PixelAt(img, Max(0, Min(cx + dx, img.width - 1)),
                     Max(0, Min(cy + dy, img.height - 1)))

\* sum(s[ch] for s in samples) over the first k samples
RECURSIVE PatchSum(_, _, _, _, _)
PatchSum(img, cx, cy, ch, k) ==
    IF k = 0 THEN 0
    ELSE PatchSample(img, cx, cy, k)[ch] + PatchSum(img, cx, cy, ch, k - 1)

\* lines 270-288: the colour of one cell, the average of the 5 x 5 patch
\* around its centre
CellColor(img, c) ==
    LET cx == c[1] + c[3] \div 2
        cy == c[2] + c[4] \div 2
        count == (2 * PatchRadius + 1) * (2 * PatchRadius + 1)
        avg(ch) == PatchSum(img, cx, cy, ch, count) \div count
    IN  classify_color(<<avg(1), avg(2), avg(3)>>)

extract_row_colors(img, row_cells) ==
    [k \in DOMAIN row_cells |-> CellColor(img, row_cells[k])]

\* the rows detect_colors_simple samples: int(height * y_ratio)
YRatios == <<25, 30, 35, 40, 45>>

\* lines 360-369: the five colours sampled at int(height * y_ratio); the
\* centres int(start_x + cell_size * i + cell_size / 2) are width * (3 + i)
\* / 10 rounded down, always inside the image
SimpleRow(img, pct) ==
    LET cy == (img.height * pct) \div 100
    IN  [k \in 1..5 |-> classify_color(PixelAt(img, (img.width * (2 + k)) \div 10, cy))]

\* detect_colors_simple: the first sampled row with a green or a yellow;
\* NoColors stands for None
detect_colors_simple(img) ==
    LET good == {k \in DOMAIN YRatios :
                    \E i \in 1..5 : SimpleRow(img, YRatios[k])[i] \in {"green", "yellow"}}
    IN  IF good = {} THEN NoColors
        ELSE SimpleRow(img, YRatios[CHOOSE k \in good : \A j \in good : k <= j])

\* lines 311-316 of process_wordle_screenshot: the colours read from the
\* last row found, or by the fallback
ReadColors(img, rows) ==
    IF rows = <<>> THEN detect_colors_simple(img)
    ELSE extract_row_colors(img, rows[Len(rows)])

----------------------------------------------------------------------------
(* SpecGrid: process_wordle_screenshot on synthetic images, the grid       *)
(* search taken one loop iteration at a time                               *)

White == <<255, 255, 255>>
Dark  == <<18, 18, 19>>
Backgrounds == {White, Dark}

\* the colour a tile of a category is painted with: the classic references
Paint(col) ==
    IF col = "green" THEN <<106, 170, 100>>
    ELSE IF col = "yellow" THEN <<201, 180, 88>>
    ELSE <<120, 124, 126>>

\* image sizes and tile rows: tiles filling the width, tiles with margins,
\* tiles where the fallback samples, small and very small images, no tile
Layouts ==
    { [width |-> 80, height |-> 60, left |-> 1,  side |-> 14, gap |-> 2, top |-> 17],
      [width |-> 80, height |-> 60, left |-> 11, side |-> 10, gap |-> 2, top |-> 15],
      [width |-> 80, height |-> 60, left |-> 20, side |-> 8,  gap |-> 0, top |-> 15],
      [width |-> 40, height |-> 30, left |-> 1,  side |-> 6,  gap |-> 2, top |-> 5],
      [width |-> 12, height |-> 30, left |-> 1,  side |-> 2,  gap |-> 0, top |-> 5],
      [width |-> 6,  height |-> 30, left |-> 0,  side |-> 1,  gap |-> 0, top |-> 5],
      [width |-> 80, height |-> 60, left |-> 0,  side |-> 0,  gap |-> 0, top |-> 0] }

TileSeqs ==
    { <<"grey", "grey", "grey", "grey", "grey">>,
      <<"green", "yellow", "grey", "green", "yellow">>,
      <<"grey", "grey", "green", "grey", "grey">>,
      <<"yellow", "green", "green", "yellow", "grey">> }

MakeImage(l, bg, seq) ==
    [width |-> l.width, height |-> l.height, bg |-> bg,
     left |-> l.left, side |-> l.side, gap |-> l.gap, top |-> l.top,
     tiles |-> [k \in 1..5 |-> Paint(seq[k])]]

InitGrid ==
    /\ DataIdle /\ SmsIdle /\ ArchIdle
    /\ pixel = <<>> /\ color_type = ""
    /\ convention = "grid" /\ guess = STARE /\ raw_input = <<>>
    /\ \E l \in Layouts, bg \in Backgrounds, seq \in TileSeqs :
            /\ colors = seq
            /\ image = MakeImage(l, bg, seq)
    /\ parsed = None /\ candidates = <<>> /\ scored = <<>> /\ ranked = <<>>
    /\ scan_y = 0 /\ scan_x = 0 /\ right = 0 /\ cells = <<>> /\ rows_found = <<>>
    /\ pc = "start"

gridFixed == <<dataVars, smsVars, archVars, pixel, convention, guess, colors, raw_input,
               candidates, scored, ranked, image>>

\* process_wordle_screenshot calls find_wordle_grid: y = height // 6
GridStart ==
    /\ pc = "start" /\ convention = "grid"
    /\ scan_y' = image.height \div SweepStart
    /\ rows_found' = <<>>
    /\ pc' = "sweep"
    /\ UNCHANGED <<gridFixed, parsed, color_type, scan_x, right, cells>>

\* the sweep goes on: find_row_at_y starts at x = 0
SweepRow ==
    /\ pc = "sweep"
    /\ SweepContinues(image, scan_y)
    /\ cells' = <<>>
    /\ scan_x' = 0
    /\ pc' = "scan"
    /\ UNCHANGED <<gridFixed, parsed, color_type, scan_y, right, rows_found>>

\* the sweep is over: the colours are read and the constraint is built
SweepEnd ==
    /\ pc = "sweep"
    /\ ~ SweepContinues(image, scan_y)
    /\ parsed' = process_wordle_screenshot(ReadColors(image, rows_found), guess)
    /\ pc' = "done"
    /\ UNCHANGED <<gridFixed, color_type, scan_y, scan_x, right, cells, rows_found>>

\* lines 219-231: the pixel at x is classified; find_cell_bounds starts
\* with right = start_x when the colour is one of the three categories
ScanCell ==
    /\ pc = "scan"
    /\ scan_x < image.width - MinCell(image)
    /\ color_type' = classify_color(PixelAt(image, Min(scan_x, image.width - 1),
                                            Min(scan_y, image.height - 1)))
    /\ IF color_type' \in {"green", "yellow", "grey"}
       THEN right' = scan_x /\ pc' = "edge" /\ scan_x' = scan_x
       ELSE right' = right /\ pc' = "scan" /\ scan_x' = scan_x + ScanStep
    /\ UNCHANGED <<gridFixed, parsed, scan_y, cells, rows_found>>

\* lines 254-257: the right edge moves on by one pixel
EdgeGrow ==
    /\ pc = "edge"
    /\ right < EdgeLimit(image, scan_x)
    /\ SameCell(image, scan_x, scan_y, right)
    /\ right' = right + 1
    /\ UNCHANGED <<gridFixed, parsed, color_type, scan_y, scan_x, cells, rows_found, pc>>

\* lines 259-263 and 232-237: the edge is found; an accepted cell is added
\* and x moves past it, a rejected one moves x by 5
EdgeStop ==
    /\ pc = "edge"
    /\ ~ (right < EdgeLimit(image, scan_x) /\ SameCell(image, scan_x, scan_y, right))
    /\ LET cell_width == right - scan_x
       IN  IF CellAccepted(image, cell_width)
           THEN /\ cells' = Append(cells, Cell(scan_x, scan_y, cell_width))
                /\ scan_x' = PastCell(Cell(scan_x, scan_y, cell_width))
           ELSE /\ cells' = cells
                /\ scan_x' = scan_x + ScanStep
    /\ pc' = "scan"
    /\ UNCHANGED <<gridFixed, parsed, color_type, scan_y, right, rows_found>>

\* lines 238 and 201-206: the row is over; five cells make a row and y
\* skips past it, anything else moves y by 10
RowEnd ==
    /\ pc = "scan"
    /\ ~ (scan_x < image.width - MinCell(image))
    /\ IF Len(cells) = 5
       THEN /\ rows_found' = Append(rows_found, cells)
            /\ scan_y' = scan_y + cells[1][4] + RowSkip
       ELSE /\ rows_found' = rows_found
            /\ scan_y' = scan_y + SweepStep
    /\ pc' = "sweep"
    /\ UNCHANGED <<gridFixed, parsed, color_type, scan_x, right, cells>>

NextGrid == GridStart \/ SweepRow \/ SweepEnd \/ ScanCell \/ EdgeGrow \/ EdgeStop \/ RowEnd

\* find_wordle_grid runs on its own thread of control: a loop iteration
\* that can be taken is taken
GridSearch == GridStart \/ SweepRow \/ ScanCell \/ EdgeGrow \/ EdgeStop \/ RowEnd

GridLive == WF_vars(GridSearch)

SpecGrid == InitGrid /\ [][NextGrid]_vars /\ GridLive

----------------------------------------------------------------------------
(* SpecStarter: get_best_starter on corpora, archives and recent answers *)

\* words to fill a list of recent answers: QQQQA, QQQQB, ...
Filler(k) == <<"Q", "Q", "Q", "Q", UpperSeq[k]>>
Fillers   == [k \in 1..RecentCount |-> Filler(k)]

StarterCorpora ==
    { {CRANE, SNARE, SCARE, STARE, SHARE, SHUSH, ERASE},
      {CRANE, CRATE, GRAPE, TRACE, STARE},
      {STARE, SHARE, CRANE},
      {SHUSH, ERASE, EERIE},
      {GRAPE, SHUSH} }

StarterArchives == {{}, {SHARE}, {STARE, SHARE, CRANE}, {GRAPE, SHUSH}}

\* the local database newest first: empty, short, and longer than the 20
\* answers that count, with STARE or CRANE as the answer left out
RecentLists ==
    { <<>>,
      <<SHUSH, SHARE>>,
      <<CRANE, CRATE, TRACE>>,
      Fillers \o <<STARE>>,
      <<CRATE>> \o SubSeq(Fillers, 1, RecentCount - 1) \o <<CRANE, SNARE>> }

InitStarter ==
    /\ SmsIdle /\ ImgIdle /\ ArchIdle
    /\ wordlist \in StarterCorpora
    /\ past \in StarterArchives
    /\ recent \in RecentLists
    /\ convention = "starter" /\ guess = <<>> /\ colors = <<>> /\ raw_input = <<>>
    /\ parsed = None /\ candidates = <<>> /\ scored = <<>> /\ ranked = <<>>
    /\ pc = "start"

\* the call get_best_starter(): the list "all" it returns, in one of the
\* orders the iteration of the set `available` allows
Starter ==
    /\ pc = "start" /\ convention = "starter"
    /\ ranked' \in get_best_starter(wordlist, past, recent)
    /\ pc' = "ranked"
    /\ UNCHANGED <<convention, guess, colors, raw_input, parsed, candidates, scored>>
    /\ UNCHANGED <<dataVars, smsVars, imgVars, archVars>>

NextStarter == Starter

SpecStarter == InitStarter /\ [][NextStarter]_vars

----------------------------------------------------------------------------
(* SpecArchive: get_past_answers, its cache, the local database and the    *)
(* paged archive service, one page request at a time                       *)

CACHE_TTL == 3600
PageSize  == 100    \* per_page, and page * 100

\* time moves in steps of TickStep up to MaxClock
TickStep == 1800
MaxClock == 9000

\* the answer service's reply to the request for page p: the entries of
\* the page (none beyond the last page) and the total it reports
Response(rem, p) ==
    [results |-> IF p <= Len(rem.pages) THEN rem.pages[p] ELSE <<>>,
     total   |-> rem.total]

\* lines 98-101: the non-empty answers of a page, in upper case
AnswersOf(results) == {UpperStr(results[k]) : k \in DOMAIN results} \ {<<>>}

\* the archives the service may hold: nothing, one page, two and three
\* pages (a page stands for up to 100 entries; total counts entries)
Remotes ==
    { [pages |-> <<>>, total |-> 0],
      [pages |-> << <<SHARE>> >>, total |-> 1],
      [pages |-> << <<SHARE, <<"s","t","a","r","e">> >>, <<CRANE, <<>> >> >>, total |-> 101],
      [pages |-> << <<SHARE>>, <<STARE>>, <<CRANE, SHUSH>> >>, total |-> 202] }

\* the local database, newest first: absent or holding two answers
LocalDbs == {<<>>, <<SHUSH, SHARE>>}

ArchCorpus == {CRANE, SNARE, SHARE, STARE, SHUSH}

InitArchive ==
    /\ SmsIdle /\ ImgIdle
    /\ wordlist = ArchCorpus
    /\ past = {}
    /\ recent \in LocalDbs
    /\ convention = "archive" /\ guess = <<>> /\ colors = <<>> /\ raw_input = <<>>
    /\ parsed = None /\ candidates = <<>> /\ scored = <<>> /\ ranked = <<>>
    /\ past_answers_cache = [words |-> {}, last_fetched |-> 0]
    /\ clock \in {0, CACHE_TTL}
    /\ now = 0
    /\ remote \in Remotes
    /\ page = 0 /\ all_words = {}
    /\ pc = "idle"

archFixed == <<wordlist, recent, smsVars, imgVars, convention, guess, colors,
               raw_input, parsed, candidates, scored, ranked, remote>>

\* time passes
Tick ==
    /\ convention = "archive"
    /\ clock + TickStep <= MaxClock
    /\ clock' = clock + TickStep
    /\ UNCHANGED <<archFixed, past, past_answers_cache, now, page, all_words, pc>>

\* line 76: the cached set is served while it is non-empty and fresh
CacheFresh(c, t) == c.words # {} /\ (t - c.last_fetched) < CACHE_TTL

\* lines 74-86: filter_candidates or get_best_starter calls
\* get_past_answers; the cache or the local database answers at once,
\* otherwise the page loop starts
GetPastAnswers ==
    /\ pc = "idle" /\ convention = "archive"
    /\ now' = clock
    /\ IF CacheFresh(past_answers_cache, clock)
       THEN /\ past' = past_answers_cache.words
            /\ pc' = "returned"
            /\ UNCHANGED <<past_answers_cache, page, all_words>>
       ELSE IF recent # <<>>
       THEN /\ past_answers_cache' = [words |-> Range(recent), last_fetched |-> clock]
            /\ past' = Range(recent)
            /\ pc' = "returned"
            /\ UNCHANGED <<page, all_words>>
       ELSE /\ all_words' = {}
            /\ page' = 1
            /\ pc' = "fetch"
            /\ UNCHANGED <<past, past_answers_cache>>
    /\ UNCHANGED <<archFixed, clock>>

\* lines 88-106: a page request that succeeds; the loop ends on an empty
\* page or when page * 100 reaches the total
PageFetched ==
    /\ pc = "fetch"
    /\ LET data == Response(remote, page)
       IN  IF data.results = <<>>
           THEN /\ pc' = "install"
                /\ UNCHANGED <<all_words, page>>
           ELSE /\ all_words' = all_words \cup AnswersOf(data.results)
                /\ IF page * PageSize >= data.total
                   THEN pc' = "install" /\ page' = page
                   ELSE pc' = "fetch" /\ page' = page + 1
    /\ UNCHANGED <<archFixed, past, past_answers_cache, clock, now>>

\* lines 107-108: a page request that raises (network error, bad status,
\* bad JSON); the exception is swallowed
PageFailed ==
    /\ pc = "fetch"
    /\ pc' = "install"
    /\ UNCHANGED <<archFixed, past, past_answers_cache, clock, now, page, all_words>>

\* lines 110-112: what was fetched, if anything, becomes the cache; the
\* cache is returned
InstallFetched ==
    /\ pc = "install"
    /\ past_answers_cache' =
            IF all_words # {}
            THEN [words |-> all_words, last_fetched |-> now]
            ELSE past_answers_cache
    /\ past' = past_answers_cache'.words
    /\ pc' = "returned"
    /\ UNCHANGED <<archFixed, clock, now, page, all_words>>

\* the caller goes on with the set; the next call may follow
Handed ==
    /\ pc = "returned" /\ convention = "archive"
    /\ pc' = "idle"
    /\ UNCHANGED <<archFixed, past, past_answers_cache, clock, now, page, all_words>>

NextArchive ==
    Tick \/ GetPastAnswers \/ PageFetched \/ PageFailed \/ InstallFetched \/ Handed

SpecArchive == InitArchive /\ [][NextArchive]_vars

----------------------------------------------------------------------------
(* Properties of the constraint builders (SpecParse) *)

StAre == <<"s", "t", "(", "a", ")", "R", "e">>

\* C2 (as amended): parse_input on st(a)Re gives the word STARE, green
\* {3: R}, yellow {2: A} (the 0-based position of (a)) and grey {S, T, E}
C2_StareParse ==
    (pc = "parsed" /\ raw_input = StAre) =>
        /\ parsed.word = STARE
        /\ parsed.green = (3 :> "R")
        /\ parsed.yellow = (2 :> "A")
        /\ parsed.grey = {"S", "T", "E"}

C2_Witness == pc = "parsed" /\ raw_input = StAre /\ convention = "A"

\* C2 as stated: green {2: R, 3: E}, yellow {p: A} at the position of (a),
\* grey {S, T} less the green and yellow letters
C2_AsStated ==
    (pc = "parsed" /\ raw_input = StAre) =>
        /\ parsed.green = (2 :> "R" @@ 3 :> "E")
        /\ parsed.yellow = (2 :> "A")
        /\ parsed.grey = ({"S", "T"} \ Values(parsed.green)) \ Values(parsed.yellow)

\* C3: a constraint built by parse_input or by process_wordle_screenshot has
\* no grey letter that is also a green or a yellow value
C3_GreyDisjoint ==
    (pc = "parsed" /\ parsed # None) =>
        parsed.grey \cap (Values(parsed.green) \cup Values(parsed.yellow)) = {}

\* a letter marked grey at one position and green or yellow at another
GreyAndMarked(ch) ==
    /\ \E i \in DOMAIN guess : guess[i] = ch /\ colors[i] = "grey"
    /\ \E i \in DOMAIN guess : guess[i] = ch /\ colors[i] \in {"green", "yellow"}

C3_Witness ==
    /\ pc = "parsed" /\ convention = "A" /\ parsed # None
    /\ \E ch \in Range(guess) : GreyAndMarked(ch) /\ ch \in Values(parsed.green)
    /\ parsed.grey # {}

\* the convention-A text of the same guess and feedback, with the same '+'
SameInA == Annotate("A", guess, colors) \o Pluses(parsed.extra_count \div ExtraPerPlus)

----------------------------------------------------------------------------
(* Properties of the filter and the scorer (SpecCore) *)

Rule1(p, w) == \A pos \in DOMAIN p.green : At(w, pos) = p.green[pos]
Rule2(p, w) == \A ch \in p.grey : ~ InWord(ch, w)
Rule3(p, w) == \A pos \in DOMAIN p.yellow : InWord(p.yellow[pos], w)
Rule4(p, w) == \A pos \in DOMAIN p.yellow : At(w, pos) # p.yellow[pos]
AllRules(p, w) == Rule1(p, w) /\ Rule2(p, w) /\ Rule3(p, w) /\ Rule4(p, w)

\* C1: filter_candidates returns exactly the words of corpus - archive that
\* satisfy the four rules, each once
C1_FilterExact ==
    (pc \in {"filtered", "ranked"}) =>
        /\ Range(candidates) = {w \in wordlist \ past : AllRules(parsed, w)}
        /\ \A i, j \in DOMAIN candidates : candidates[i] = candidates[j] => i = j

C1_Witness ==
    /\ pc = "filtered"
    /\ candidates # <<>>
    /\ parsed.green # <<>> /\ parsed.yellow # <<>> /\ parsed.grey # {}
    /\ \E w \in wordlist \ past :
            Rule1(parsed, w) /\ Rule2(parsed, w) /\ Rule3(parsed, w) /\ ~ Rule4(parsed, w)
    /\ past \cap wordlist # {}

ScoreOf(w) == scored[CHOOSE k \in DOMAIN scored : scored[k].w = w].s

\* C5: find_best_suggestions returns every candidate exactly once, by score
\* descending, equal scores in ascending lexicographic order
C5_RankedOrder ==
    (pc = "ranked") =>
        /\ Len(ranked) = Len(candidates)
        /\ \A w \in Range(candidates) :
                Cardinality({k \in DOMAIN ranked : ranked[k] = w}) = 1
        /\ \A i, j \in DOMAIN ranked : i < j =>
                /\ ~ RatLess(ScoreOf(ranked[i]), ScoreOf(ranked[j]))
                /\ RatEq(ScoreOf(ranked[i]), ScoreOf(ranked[j]))
                        => LexLess(ranked[i], ranked[j])

C5_Witness ==
    /\ pc = "ranked"
    /\ Len(ranked) >= 4
    /\ \E i, j \in DOMAIN ranked :
            i < j /\ RatEq(ScoreOf(ranked[i]), ScoreOf(ranked[j]))
    /\ \E i, j \in DOMAIN ranked :
            i < j /\ RatLess(ScoreOf(ranked[j]), ScoreOf(ranked[i]))
                  /\ LexLess(ranked[j], ranked[i])

RECURSIVE SumInt(_, _)
SumInt(f, D) ==
    IF D = {} THEN 0
    ELSE LET x == CHOOSE y \in D : TRUE IN f[x] + SumInt(f, D \ {x})

Tested(p) == (p.grey \cup Values(p.yellow)) \cup Values(p.green)
Unlocked(p) == (0..(WordLen - 1)) \ DOMAIN p.green
CountAt(cands, i, ch) == Cardinality({k \in DOMAIN cands : At(cands[k], i) = ch})

\* the frequency term of position i, times the number of candidates
FreqTerm(w, i) ==
    IF At(w, i) \in Tested(parsed) THEN 0
    ELSE FreqScale * CountAt(candidates, i, At(w, i))

RepeatsUnlocked(w, i) == \E j \in 0..(i - 1) : j \in Unlocked(parsed) /\ At(w, j) = At(w, i)
RepeatsAny(w, i)      == \E j \in 0..(i - 1) : At(w, j) = At(w, i)

\* C6 (as amended): the score is the sum over the unlocked positions i of
\* -5 when word[i] occurs at an earlier UNLOCKED position, plus
\* 10 * count / total when word[i] is not a tested letter
C6_ScoreFormula ==
    (pc = "ranked") =>
        \A k \in DOMAIN scored :
            LET w == scored[k].w
                n == Len(candidates)
            IN  RatEq(scored[k].s,
                      <<SumInt([i \in Unlocked(parsed) |->
                                  (IF RepeatsUnlocked(w, i) THEN -RepeatPenalty * n ELSE 0)
                                  + FreqTerm(w, i)], Unlocked(parsed)), n>>)

C6_Witness ==
    /\ pc = "ranked"
    /\ \E k \in DOMAIN scored : \E i \in Unlocked(parsed) :
            RepeatsAny(scored[k].w, i) /\ ~ RepeatsUnlocked(scored[k].w, i)
    /\ \E k \in DOMAIN scored : \E i \in Unlocked(parsed) :
            FreqTerm(scored[k].w, i) > 0 /\ FreqTerm(scored[k].w, i) < FreqScale * Len(candidates)

\* C6 as stated: the penalty applies when word[i] occurs at any earlier
\* position, locked or not
C6_AsStated ==
    (pc = "ranked") =>
        \A k \in DOMAIN scored :
            LET w == scored[k].w
                n == Len(candidates)
            IN  RatEq(scored[k].s,
                      <<SumInt([i \in Unlocked(parsed) |->
                                  (IF RepeatsAny(w, i) THEN -RepeatPenalty * n ELSE 0)
                                  + FreqTerm(w, i)], Unlocked(parsed)), n>>)

\* C10: the constraint built from a screenshot's colours equals the one
\* parse_input builds from the convention-A text of the same feedback, and
\* so do the filter's and the scorer's results
C10_SameConstraint ==
    (pc # "start") =>
        LET other == IF convention = "image"
                     THEN parse_input(Annotate("A", guess, colors))
                     ELSE process_wordle_screenshot(colors, guess)
        IN  /\ parsed.word = other.word
            /\ parsed.green = other.green
            /\ parsed.yellow = other.yellow
            /\ parsed.grey = other.grey
            /\ pc \in {"filtered", "ranked"} =>
                    candidates = filter_candidates(other, wordlist, past)
            /\ pc = "ranked" => ranked = find_best_suggestions(other, wordlist, past)

C10_Witness ==
    /\ pc = "ranked" /\ convention = "image"
    /\ parsed.green # <<>> /\ parsed.yellow # <<>> /\ parsed.grey # {}
    /\ Len(ranked) >= 2


----------------------------------------------------------------------------
(* Claims about the sessions of sms_reply (Spec) *)

\* the stored list and the cursor of a user before and after a step
ListOf(S, u)   == S[u].suggestions
CursorOf(S, u) == S[u].index

\* the items of lst at the 0-based places from..(from + n - 1) that exist
SliceIs(items, lst, from, n) ==
    /\ Len(items) = Min(n, Len(lst) - from)
    /\ \A k \in 1..Len(items) : items[k] = lst[from + k]

\* C7 (amended): a '+' request that has something left to show returns the
\* items cursor..cursor+requested_count of the stored list that exist and
\* advances the stored cursor by the requested count (3 per '+'), whatever
\* the number of items returned, so the cursor can pass the end of the
\* list; a '+' request with nothing left returns no item and leaves the
\* sessions as they are.
C7_CursorAdvance ==
    [][ /\ reply'.kind = "more" =>
            LET u == reply'.to
            IN  /\ HasSuggestions(user_sessions, u)
                /\ CursorOf(user_sessions, u) < Len(ListOf(user_sessions, u))
                /\ reply'.items # <<>>
                /\ SliceIs(reply'.items, ListOf(user_sessions, u),
                           CursorOf(user_sessions, u), reply'.count)
                /\ ListOf(user_sessions', u) = ListOf(user_sessions, u)
                /\ CursorOf(user_sessions', u)
                       = CursorOf(user_sessions, u) + reply'.count
        /\ reply'.kind = "no_more" =>
            /\ reply'.items = <<>>
            /\ user_sessions' = user_sessions
            /\ \/ reply'.count = 0
               \/ CursorOf(user_sessions, reply'.to)
                      >= Len(ListOf(user_sessions, reply'.to)) ]_vars

\* a '+' returned fewer items than requested and the cursor stands past the
\* end of the list
C7_Witness ==
    /\ reply # None /\ reply.kind = "more"
    /\ Len(reply.items) < reply.count
    /\ CursorOf(user_sessions, reply.to) > Len(ListOf(user_sessions, reply.to))

\* C7 as stated: the cursor advances by the number of items returned
C7_AsStated ==
    [][ reply'.kind = "more" =>
            CursorOf(user_sessions', reply'.to)
                = CursorOf(user_sessions, reply'.to) + Len(reply'.items) ]_vars

\* C8: after a query (or '?') stored a list, what the user has been shown by
\* the query and the '+' requests since, taken together and in the order
\* shown, is the beginning of the stored list up to the cursor (or the whole
\* list once the cursor reached its end): the slices are consecutive, none
\* skipped or repeated; and a request made once the list is exhausted shows
\* nothing.
C8_ConsecutiveSlices ==
    /\ [](\A u \in Users :
            (u \in DOMAIN user_sessions /\ "suggestions" \in DOMAIN user_sessions[u]) =>
                delivered[u] = SubSeq(ListOf(user_sessions, u), 1,
                                      Min(CursorOf(user_sessions, u),
                                          Len(ListOf(user_sessions, u)))))
    /\ [][ \A u \in Users :
            ( /\ HasSuggestions(user_sessions, u)
              /\ CursorOf(user_sessions, u) >= Len(ListOf(user_sessions, u))
              /\ reply'.to = u
              /\ reply'.kind \in {"more", "no_more", "no_previous"} )
            => (reply'.kind = "no_more" /\ reply'.items = <<>>
                /\ delivered'[u] = delivered[u]) ]_vars

\* a list of 7 shown as items 0..2 by the query, 3..5 by '+', 6 by the next
\* '+', and nothing by the one after
C8_Witness ==
    \E u \in Users :
        /\ HasSuggestions(user_sessions, u)
        /\ Len(ListOf(user_sessions, u)) = 7
        /\ CursorOf(user_sessions, u) = 9
        /\ delivered[u] = ListOf(user_sessions, u)
        /\ reply.to = u /\ reply.kind = "no_more" /\ reply.count = 3

\* what each reply means for the session of the user it goes to
SessionAfter(S, T, r) ==
    LET u == r.to
    IN  CASE r.kind \in {"query", "image_query", "await_query"} ->
               /\ u \in DOMAIN T
               /\ DOMAIN T[u] = {"suggestions", "index", "parsed"}
               /\ T[u].index = r.count
               /\ r.items = PySlice(T[u].suggestions, 0, r.count)
          [] r.kind = "starter" ->
               /\ u \in DOMAIN T
               /\ DOMAIN T[u] = {"suggestions", "index", "mode"}
               /\ T[u].index = StarterIndex
          [] r.kind = "ask_word" ->
               u \in DOMAIN T /\ T[u] = AwaitingSession(Url)
          [] r.kind = "more" ->
               /\ u \in DOMAIN S /\ u \in DOMAIN T
               /\ T[u] = [S[u] EXCEPT !.index = @ + r.count]
          [] r.kind = "reset" -> u \notin DOMAIN T
          [] r.kind = "await_failed" -> IsAwaiting(S, u) /\ u \notin DOMAIN T
          [] OTHER ->
               /\ (u \in DOMAIN S) = (u \in DOMAIN T)
               /\ u \in DOMAIN S => T[u] = S[u]

\* C9 (amended): a user's session is created or replaced by every query of
\* that user that yields a constraint, by '?' and by a screenshot sent
\* without a word; a '+' with something left changes only its cursor; it is
\* removed by '*' and also when the word awaited after a screenshot arrives
\* and the stored screenshot cannot be fetched or read; every other message
\* leaves it as it is, and a message never changes another user's session.
C9_SessionLifecycle ==
    [][ /\ SessionAfter(user_sessions, user_sessions', reply')
        /\ \A u \in Users \ {reply'.to} :
              /\ (u \in DOMAIN user_sessions) = (u \in DOMAIN user_sessions')
              /\ u \in DOMAIN user_sessions => user_sessions'[u] = user_sessions[u]
      ]_vars

\* the word awaited by u1 arrived, the screenshot could not be read, and the
\* session of u1 is gone while u2 keeps a ranked list
C9_Witness ==
    /\ reply # None /\ reply.kind = "await_failed" /\ reply.to = "u1"
    /\ "u1" \notin DOMAIN user_sessions
    /\ HasSuggestions(user_sessions, "u2")

\* C9 as stated: only the reset removes a session
C9_AsStated ==
    [][ \A u \in Users :
            (u \in DOMAIN user_sessions /\ u \notin DOMAIN user_sessions')
                => (reply'.to = u /\ reply'.kind = "reset") ]_vars

----------------------------------------------------------------------------
(* Claims about the colour classifier (SpecColor) *)

Categories == <<"green", "yellow", "grey">>

\* the squared distance from rgb to the nearest reference of any category
NearestSq(rgb) ==
    CHOOSE d \in {color_distance_sq(rgb, WORDLE_COLORS[k].ref) : k \in DOMAIN WORDLE_COLORS} :
        \A k \in DOMAIN WORDLE_COLORS : d <= color_distance_sq(rgb, WORDLE_COLORS[k].ref)

\* the categories that have a reference at the least distance
NearestCategories(rgb) ==
    {WORDLE_COLORS[k].name : k \in {j \in DOMAIN WORDLE_COLORS :
        color_distance_sq(rgb, WORDLE_COLORS[j].ref) = NearestSq(rgb)}}

\* the first-listed of a non-empty set of categories
FirstListed(cats) ==
    Categories[CHOOSE i \in 1..3 : Categories[i] \in cats
                                   /\ \A j \in 1..(i - 1) : Categories[j] \notin cats]

\* C11: classify_color returns the category of the nearest reference colour,
\* the first-listed category (green, yellow, grey) when two categories are
\* equally near; when the least distance is more than 80 it returns green
\* if g > r, g > b and g > 100, else yellow if r > 150, g > 150 and b < 150,
\* else grey.  The result is one of green, yellow, grey.
C11_NearestOrHue ==
    color_type # "" =>
        /\ color_type \in {"green", "yellow", "grey"}
        /\ NearestSq(pixel) <= 6400 =>
                color_type = FirstListed(NearestCategories(pixel))
        /\ NearestSq(pixel) > 6400 =>
                color_type =
                    IF pixel[2] > pixel[1] /\ pixel[2] > pixel[3] /\ pixel[2] > 100
                    THEN "green"
                    ELSE IF pixel[1] > 150 /\ pixel[2] > 150 /\ pixel[3] < 150
                    THEN "yellow"
                    ELSE "grey"

\* a pixel as near to a yellow reference as to a grey one, within the
\* threshold, classified yellow
C11_Witness ==
    /\ color_type = "yellow"
    /\ NearestCategories(pixel) = {"yellow", "grey"}
    /\ NearestSq(pixel) <= 6400

----------------------------------------------------------------------------
(* Claims about the grid recognizer (SpecGrid) *)

\* the image holds a row of five tiles
HasTiles == image # None /\ image.side > 0

\* the colours of the constraint process_wordle_screenshot returned (the
\* guess has five distinct letters), <<>> when it returned None
ColorsOf(p) ==
    IF p = None THEN <<>>
    ELSE [i \in 1..WordLen |->
            IF (i - 1) \in DOMAIN p.green THEN "green"
            ELSE IF (i - 1) \in DOMAIN p.yellow THEN "yellow"
            ELSE "grey"]

\* C12 as stated: for an image of one row of five tiles painted with
\* reference colours on a uniform background, process_wordle_screenshot
\* gives back the colours the image was made with, position by position.
C12_AsStated ==
    (pc = "done" /\ HasTiles) => ColorsOf(parsed) = colors

----------------------------------------------------------------------------
(* Claims about the starter selector (SpecStarter) *)

StarterAvailable == wordlist \ past

\* the available words with five distinct letters
FiveDistinct == {w \in StarterAvailable : Cardinality({w[i] : i \in 1..Len(w)}) = 5}

\* the answers that count: the first 20 of the list, newest first
CountedRecent == [k \in 1..(IF Len(recent) < 20 THEN Len(recent) ELSE 20) |-> recent[k]]

\* the available words holding ch, and the occurrences of ch in the counted
\* recent answers
PresenceCount(ch) == Cardinality({v \in StarterAvailable : \E i \in 1..Len(v) : v[i] = ch})
RecentCountOf(ch) ==
    SumInt([k \in DOMAIN CountedRecent |->
                Cardinality({i \in 1..Len(CountedRecent[k]) : CountedRecent[k][i] = ch})],
           DOMAIN CountedRecent)

\* the score of a starter as the claim gives it
ClaimedStarterScore(w) ==
    SumInt([i \in 1..Len(w) |-> PresenceCount(w[i])], 1..Len(w))
        - 2 * SumInt([i \in 1..Len(w) |-> RecentCountOf(w[i])], 1..Len(w))

\* C13: the list get_best_starter returns holds exactly the available words
\* (corpus minus archive) with 5 distinct letters, each once, in
\* non-increasing order of score = sum over the letters of the number of
\* available words holding the letter, minus twice the sum over the letters
\* of the letter's occurrences in the 20 most recent answers; when no word
\* is available or none has 5 distinct letters the list is the default SLATE.
C13_StarterRanking ==
    (pc = "ranked" /\ convention = "starter") =>
        IF FiveDistinct = {}
        THEN ranked = <<DefaultStarter>>
        ELSE /\ Len(ranked) = Cardinality(FiveDistinct)
             /\ {ranked[k] : k \in DOMAIN ranked} = FiveDistinct
             /\ \A i, j \in DOMAIN ranked :
                    i < j => ClaimedStarterScore(ranked[i]) >= ClaimedStarterScore(ranked[j])

\* a ranking of at least three words whose order is decided by the recent
\* answers, of which more than 20 are stored
C13_Witness ==
    /\ pc = "ranked" /\ convention = "starter"
    /\ Len(recent) > 20
    /\ Len(ranked) >= 3
    /\ ClaimedStarterScore(ranked[1]) > ClaimedStarterScore(ranked[Len(ranked)])
    /\ \E i, j \in DOMAIN ranked :
          /\ i < j
          /\ SumInt([k \in 1..5 |-> PresenceCount(ranked[i][k])], 1..5)
                < SumInt([k \in 1..5 |-> PresenceCount(ranked[j][k])], 1..5)

----------------------------------------------------------------------------
(* Claims about rejected texts (Spec) *)

\* the texts that are no command and whose parsed word has not 5 letters
IsCommand(body) ==
    \/ LowerStr(Strip(body)) \in HelpWords
    \/ Strip(body) \in {<<"*">>, <<"?">>}
    \/ StripPlus(Strip(body)) = <<>>
WrongLengthTexts ==
    {b \in Bodies : ~IsCommand(b) /\ Len(parse_input(Strip(b)).word) # WordLen}

\* what sms_reply does with a text of from that carries no image
OnText(S, from, body) ==
    sms_reply(S, from, body, 0, Url, NoImage, <<DefaultStarter>>, wordlist, past)

----------------------------------------------------------------------------
(* Claims about the cell search (SpecGrid) *)

\* the horizontal run of the claim: the number of pixels from start_x to
\* the right, on the row of the seed, within colour distance 50 of the
\* seed pixel; it ends at the first pixel farther away or at the image's
\* right edge
RECURSIVE RunFrom(_, _, _, _)
RunFrom(img, start_x, start_y, r) ==
    IF r < img.width /\ SameCell(img, start_x, start_y, r)
    THEN 1 + RunFrom(img, start_x, start_y, r + 1)
    ELSE 0
RunLength(img, start_x, start_y) == RunFrom(img, start_x, start_y, start_x)

\* C15 as stated: every cell find_cell_bounds has accepted has a positive
\* width and stands on a run whose length lies in [min_size, max_size].
C15_AsStated ==
    \A k \in DOMAIN cells :
        /\ cells[k][3] > 0
        /\ MinCell(image) <= RunLength(image, cells[k][1], cells[k][2])
        /\ RunLength(image, cells[k][1], cells[k][2]) <= MaxCell(image)

----------------------------------------------------------------------------
(* Claims about the order of equal starters (SpecStarter) *)

\* C16 as stated: the list get_best_starter returns is a function of the
\* available set and the recent answers alone: starters of equal score
\* stand in lexicographic order, whatever order the set was iterated in.
C16_AsStated ==
    (pc = "ranked" /\ convention = "starter") =>
        \A i, j \in DOMAIN ranked :
            (i < j /\ ClaimedStarterScore(ranked[i]) = ClaimedStarterScore(ranked[j]))
                => LexLess(ranked[i], ranked[j])

----------------------------------------------------------------------------
(* Claims about the archive snapshot (SpecArchive) *)

\* the complete set of answers of all pages of the remote archive
CompleteArchive == UNION {AnswersOf(remote.pages[k]) : k \in DOMAIN remote.pages}

\* C17 as stated: when the page loop is over, the set installed as the
\* cache and handed to the caller is the set cached before the call or
\* the complete remote archive, never the part fetched before a failure.
C17_AsStated ==
    [][(pc = "install" /\ pc' = "returned") =>
            /\ past_answers_cache'.words \in {past_answers_cache.words, CompleteArchive}
            /\ past' \in {past_answers_cache.words, CompleteArchive}]_vars

----------------------------------------------------------------------------
(* Claims about the termination of the grid search (SpecGrid) *)

\* the while loop of find_wordle_grid has ended: y has reached 0.7 * height
SweepOver == pc = "sweep" /\ 10 * scan_y >= 7 * image.height

\* C18: find_wordle_grid terminates on every image: each iteration of the
\* vertical sweep ends with a larger y, each iteration of the scan of
\* find_row_at_y ends with a larger x, each iteration of the edge loop of
\* find_cell_bounds ends with a larger right edge, zero-width cells and
\* min_cell = max_cell = 0 included, and the sweep reaches the y at which
\* its loop ends.
C18_GridTerminates ==
    /\ [][ /\ (pc = "scan" /\ pc' = "sweep") => scan_y' > scan_y
           /\ (pc \in {"scan", "edge"} /\ pc' = "scan") => scan_x' > scan_x
           /\ (pc = "edge" /\ pc' = "edge") => right' > right ]_vars
    /\ <>SweepOver

\* the search has ended on an image less than 8 pixels wide, where
\* min_cell and max_cell are 0, after zero-width cells were accepted
C18_Witness ==
    /\ pc = "done" /\ convention = "grid"
    /\ image.width < CellDivisor
    /\ MinCell(image) = 0 /\ MaxCell(image) = 0
    /\ Len(cells) >= 2
    /\ \A k \in DOMAIN cells : cells[k][3] = 0

============================================================================
